---- MODULE Spec2Model ----
(***************************************************************************)
(* go-ws-transport: the net.Conn adapter over a WebSocket connection.      *)
(*                                                                         *)
(* Two builds of type Conn exist, selected by build tag:                   *)
(*   native  (+build !js)     wraps a gorilla/websocket connection         *)
(*   browser (+build js,wasm) wraps a JavaScript WebSocket object          *)
(* The variable `backend` records which build a behaviour is of; the two   *)
(* builds share no code, so every action is guarded by its build.          *)
(*                                                                         *)
(* The gorilla connection and the JavaScript WebSocket are the environment *)
(* of the adapter.  They are modelled at the adapter's call sites: what a  *)
(* call can return, and which events the host can raise.                   *)
(***************************************************************************)
EXTENDS Integers, Sequences, FiniteSets, TLC

\* ------------------------------------------------------------------ bounds
MaxBytes == 3        \* bytes the peer writes in total
MaxFrames == 3       \* frames (data or close) the peer sends in total
MaxFrameLen == 2     \* longest buffer the peer hands to one Write
MaxBufLen == 2       \* longest buffer a caller hands to Read
MaxWrites == 2       \* data frames the local end sends
MaxWriteLen == 2     \* longest buffer a caller hands to the local Write
MaxCloseCalls == 3   \* calls of the JavaScript close method

\* ------------------------------------------------------- program constants
BinaryMessage == 2           \* ws.BinaryMessage
CloseMessage == 8            \* ws.CloseMessage
CloseNormalClosure == 1000   \* ws.CloseNormalClosure
CloseNoStatusReceived == 1005
CloseAbnormalClosure == 1006
webSocketStateConnecting == 0
webSocketStateOpen == 1
webSocketStateClosing == 2
webSocketStateClosed == 3

\* The goroutines that call into one connection: callers of Read, of Write,
\* of Close and of the deadline setters.
Readers == {"r1", "r2"}
Writers == {"w1"}
Closers == {"c1", "c2"}
Deadliners == {"d1"}
None == "none"

\* ------------------------------------------------------------ error values
\* A Go error value: its dynamic type (kind), the close code it carries and
\* its text.  NoErr is the nil error.
Err(kind, code, text) == [kind |-> kind, code |-> code, text |-> text]
NoErr == Err("nil", 0, "")
EOF == Err("io.EOF", 0, "")
ErrUnexpectedEOF == Err("io.ErrUnexpectedEOF", 0, "")
CloseError(code) == Err("*ws.CloseError", code, "")
NetErr == Err("net.OpError", 0, "use of closed network connection")
WriteErr == Err("net.OpError", 0, "write failed")
errConnectionClosed == Err("errors.errorString", 0, "connection is closed")

Min(a, b) == IF a <= b THEN a ELSE b
Take(s, n) == SubSeq(s, 1, n)
Drop(s, n) == SubSeq(s, n + 1, Len(s))
RECURSIVE Flatten(_)
Flatten(ss) == IF ss = <<>> THEN <<>> ELSE Head(ss) \o Flatten(Tail(ss))

VARIABLES
  backend,      \* the build: "native" or "browser"
  callers,      \* the goroutines that call into the connection, and the peer
  \* --- the callers' goroutines
  rpc, rlen, rres, rsub,  \* Read: position, len(b), last result, called after a Close returned
  wpc, wbuf, wres,        \* Write: position, b, last result
  cpc, cerr1, cres,       \* Close: position, err1, last result
  \* --- Conn, both builds
  closeOnce,    \* sync.Once: "fresh", "running" or "done"
  \* --- Conn, native build
  reader,       \* c.reader: the cached frame reader, or nil
  muxR, muxW, muxWait, \* c.mux: read holders, write holder, goroutines in Lock
  \* --- the gorilla connection (native)
  inbound,      \* frames received and buffered, not yet fetched
  connErr,      \* the latched read error of the connection
  netDown,      \* the network failed
  ctlSent,      \* number of WriteControl(CloseMessage) calls made
  torn,         \* number of Conn.Close calls made on the transport
  outbound,     \* frames the local end handed to the transport, in order
  \* --- Conn, browser build
  currData,     \* c.currData: the inbound byte buffer
  dataSignal,   \* c.dataSignal: items in the channel of capacity 1
  closeSignal,  \* c.closeSignal is closed
  firstErr,     \* c.firstErr
  chpc, chev,   \* the goroutine the close handler starts: position, event
  \* --- the JavaScript WebSocket (browser)
  readyState,   \* its readyState
  listeners,    \* the event types that have a listener attached
  closeCalls,   \* number of calls of its close method
  released,     \* per event type, number of removeEventListener + Release
  \* --- the peer and the observer
  peerNext,     \* the next byte value the peer writes (bytes are numbered)
  peerFrames,   \* frames the peer has sent
  peerClosed,   \* the close code the peer sent, or 0
  winner,       \* the goroutine that ran the close sequence
  readLog,      \* the byte chunks returned by successful Reads, in order
  \* --- the deadline setters (native)
  dpc, dop, dt, dres,     \* position, method called, its argument t, last result
  readDeadline,  \* the read deadline of the transport
  writeDeadline, \* the write deadline of the transport
  \* --- the dial (browser)
  opc,          \* waitForOpen: "idle", "select" or "done"
  openSignal,   \* waitForOpen's openSignal is closed
  ores          \* the error waitForOpen returned

readV == <<rpc, rlen, rres, rsub>>
writeV == <<wpc, wbuf, wres>>
closeV == <<cpc, cerr1, cres>>
muxV == <<muxR, muxW, muxWait>>
peerV == <<peerNext, peerFrames, peerClosed>>
fixedV == <<backend, callers>>
gorillaV == <<reader, muxR, muxW, muxWait, inbound, connErr, netDown, ctlSent, torn>>
bufV == <<currData, dataSignal>>
chV == <<chpc, chev>>
jsV == <<readyState, listeners, closeCalls, released>>
deadlineV == <<dpc, dop, dt, dres, readDeadline, writeDeadline>>
dialV == <<opc, openSignal, ores>>
browserV == <<currData, dataSignal, closeSignal, firstErr, chpc, chev,
              readyState, listeners, closeCalls, released>>

vars == <<backend, callers, rpc, rlen, rres, rsub, wpc, wbuf, wres, cpc, cerr1,
          cres, closeOnce, reader, muxR, muxW, muxWait, inbound, connErr,
          netDown, ctlSent, torn, outbound, peerNext, peerFrames, peerClosed,
          winner, readLog, currData, dataSignal, closeSignal, firstErr, chpc,
          chev, readyState, listeners, closeCalls, released, dpc, dop, dt,
          dres, readDeadline, writeDeadline, opc, openSignal, ores>>

\* ----------------------------------------------------------------- frames
\* A frame as the transport holds it: message type, payload, the close code
\* of a close frame, and whether the network failed before its last byte.
Frame(t, data) == [t |-> t, data |-> data, code |-> 0, cut |-> FALSE]
CloseFrame(code) == [t |-> CloseMessage, data |-> <<>>, code |-> code, cut |-> FALSE]

\* c.reader: nil, or the unread rest of the current frame.
NilReader == [active |-> FALSE, data |-> <<>>, cut |-> FALSE]
FrameReader(f) == [active |-> TRUE, data |-> f.data, cut |-> f.cut]

\* The result of a call: (n, err); Close returns (0, err).  NoRes: no call
\* of the goroutine has returned yet.
Res(n, err) == [n |-> n, err |-> err]
NoRes == Res(0 - 1, NoErr)

\* The bytes the peer's next Write of k bytes carries.
PeerBytes(k) == [i \in 1..k |-> peerNext + i - 1]

\* ------------------------------------------------ the gorilla connection
\* c.Conn.NextReader(): what the call can return in the current state, with
\* the connection's state after it.  The read error of a connection is
\* latched; buffered frames are handed out in order; a close frame from the
\* peer surfaces as a *ws.CloseError (or, for a transport that hands control
\* frames to the caller, as a frame of type CloseMessage); with nothing
\* buffered the call fails once the network is down or the connection was
\* closed locally; otherwise it blocks (no outcome).
NextReaderOutcomes ==
  IF connErr # NoErr
  THEN {[t |-> 0, r |-> NilReader, err |-> connErr, inb |-> inbound, cerr |-> connErr]}
  ELSE IF inbound # <<>>
  THEN LET f == Head(inbound) IN
       IF f.t = CloseMessage
       THEN {[t |-> 0, r |-> NilReader, err |-> CloseError(f.code),
              inb |-> Tail(inbound), cerr |-> CloseError(f.code)],
             [t |-> CloseMessage, r |-> FrameReader(f), err |-> NoErr,
              inb |-> Tail(inbound), cerr |-> CloseError(f.code)]}
       ELSE {[t |-> f.t, r |-> FrameReader(f), err |-> NoErr,
              inb |-> Tail(inbound), cerr |-> NoErr]}
  ELSE IF torn > 0 \/ netDown
  THEN {[t |-> 0, r |-> NilReader, err |-> NetErr, inb |-> inbound, cerr |-> NetErr]}
  ELSE {}

\* r.Read(b) on a frame reader with len(b) = k: the bytes copied, the error
\* and the reader afterwards.  An exhausted frame reports io.EOF (a frame the
\* network cut short: io.ErrUnexpectedEOF).  io.Reader allows the last bytes
\* of a frame to come with a nil error or with io.EOF.
FrameReadOutcomes(rd, k) ==
  IF rd.data = <<>>
  THEN {[n |-> 0, err |-> IF rd.cut THEN ErrUnexpectedEOF ELSE EOF,
         data |-> <<>>, rest |-> rd]}
  ELSE LET n == Min(k, Len(rd.data))
           rest == [rd EXCEPT !.data = Drop(rd.data, n)]
       IN  {[n |-> n, err |-> NoErr, data |-> Take(rd.data, n), rest |-> rest]}
           \cup (IF n = Len(rd.data) /\ ~rd.cut
                 THEN {[n |-> n, err |-> EOF, data |-> Take(rd.data, n), rest |-> rest]}
                 ELSE {})

\* c.Conn.WriteMessage(messageType, b): the frame queue after a successful
\* call.  The whole of b becomes the payload of one frame.
WriteMessage(q, messageType, b) == Append(q, Frame(messageType, b))

\* Whether the transport can still accept a data frame.
Writable == torn = 0 /\ ctlSent = 0 /\ ~netDown

\* multierr.Combine(err1, err2)
Combine(e1, e2) ==
  IF e1 = NoErr THEN e2
  ELSE IF e2 = NoErr THEN e1
  ELSE Err("multierr", 0, e1.text \o "; " \o e2.text)

\* ------------------------------------------------------- native: Read
\* Some Close call has returned.
closeReturned == \E c \in Closers : cres[c] # NoRes

\* Read returns (n, err) to its caller; data are the bytes it put in b.
ReadReturn(r, n, err, data) ==
  /\ rres' = [rres EXCEPT ![r] = Res(n, err)]
  /\ rpc' = [rpc EXCEPT ![r] = "idle"]
  /\ readLog' = IF n > 0 THEN Append(readLog, data) ELSE readLog

\* Read(b), entry: take the read lock and look at the cached reader.
NReadCall(r, k) ==
  /\ backend = "native" /\ r \in callers /\ rpc[r] = "idle"
  /\ muxW = None /\ muxWait = {}
  /\ muxR' = muxR \cup {r}
  /\ rlen' = [rlen EXCEPT ![r] = k]
  /\ rsub' = [rsub EXCEPT ![r] = closeReturned]
  /\ rpc' = [rpc EXCEPT ![r] = IF reader = NilReader THEN "prep" ELSE "loop"]
  /\ UNCHANGED <<fixedV, deadlineV, dialV, rres, writeV, closeV, closeOnce, reader, muxW, muxWait,
                 inbound, connErr, netDown, ctlSent, torn, outbound, peerV,
                 winner, readLog,
                 browserV>>

\* prepNextReader that reports every close error as the end of the stream.
prepNextReaderAnyClose(o, cur) ==
  IF o.err # NoErr
  THEN [err |-> IF o.err.kind = "*ws.CloseError" THEN EOF ELSE o.err,
        reader |-> cur]
  ELSE IF o.t = CloseMessage
  THEN [err |-> EOF, reader |-> cur]
  ELSE [err |-> NoErr, reader |-> o.r]

\* prepNextReader on one outcome of NextReader: the error it returns and the
\* value of c.reader afterwards.
prepNextReader(o, cur) ==
  IF o.err # NoErr
  THEN [err |-> IF o.err.kind = "*ws.CloseError"
                   /\ (o.err.code = CloseNormalClosure \/ o.err.code = CloseNoStatusReceived)
                THEN EOF ELSE o.err,
        reader |-> cur]
  ELSE IF o.t = CloseMessage
  THEN [err |-> EOF, reader |-> cur]
  ELSE [err |-> NoErr, reader |-> o.r]

\* Read: the call of prepNextReader (before the loop, or inside it after an
\* exhausted frame gave no bytes).  Blocks while NextReader has no outcome.
NReadPrep(r) ==
  /\ backend = "native" /\ rpc[r] = "prep"
  /\ \E o \in NextReaderOutcomes :
       LET p == prepNextReader(o, reader) IN
       /\ inbound' = o.inb
       /\ connErr' = o.cerr
       /\ reader' = p.reader
       /\ IF p.err # NoErr
          THEN /\ muxR' = muxR \ {r}
               /\ ReadReturn(r, 0, p.err, <<>>)
          ELSE /\ rpc' = [rpc EXCEPT ![r] = "loop"]
               /\ UNCHANGED <<muxR, rres, readLog>>
  /\ UNCHANGED <<fixedV, deadlineV, dialV, rlen, rsub, writeV, closeV, closeOnce, muxW, muxWait,
                 netDown, ctlSent, torn, outbound, peerV, winner,
                 browserV>>

\* readSwitch without the loop: an exhausted frame that gave no bytes is
\* returned as (0, nil) instead of leading to the next frame.
readSwitchNoLoop(q) ==
  IF q.err = EOF
  THEN [ret |-> TRUE, n |-> q.n, err |-> NoErr, reader |-> NilReader]
  ELSE [ret |-> TRUE, n |-> q.n, err |-> q.err, reader |-> q.rest]

\* readSwitch that goes on to the next frame whenever the current one ended,
\* even after it copied bytes in this call.
readSwitchFetchMore(q) ==
  IF q.err = EOF
  THEN [ret |-> FALSE, n |-> 0, err |-> NoErr, reader |-> NilReader]
  ELSE [ret |-> TRUE, n |-> q.n, err |-> q.err, reader |-> q.rest]

\* The switch of Read's loop on one result q of c.reader.Read(b): whether
\* Read returns (ret) and with what, and the value of c.reader afterwards.
\* Without ret the loop goes on to prepNextReader.
readSwitch(q) ==
  IF q.err = EOF
  THEN IF q.n > 0
       THEN [ret |-> TRUE, n |-> q.n, err |-> NoErr, reader |-> NilReader]
       ELSE [ret |-> FALSE, n |-> 0, err |-> NoErr, reader |-> NilReader]
  ELSE [ret |-> TRUE, n |-> q.n, err |-> q.err, reader |-> q.rest]

\* Read: one pass of the loop, c.reader.Read(b) and the switch on its error.
NReadLoop(r) ==
  /\ backend = "native" /\ rpc[r] = "loop"
  /\ \E q \in FrameReadOutcomes(reader, rlen[r]) :
       LET s == readSwitch(q) IN
       /\ reader' = s.reader
       /\ IF s.ret
          THEN /\ muxR' = muxR \ {r}
               /\ ReadReturn(r, s.n, s.err, q.data)
          ELSE /\ rpc' = [rpc EXCEPT ![r] = "prep"]
               /\ UNCHANGED <<muxR, rres, readLog>>
  /\ UNCHANGED <<fixedV, deadlineV, dialV, rlen, rsub, writeV, closeV, closeOnce, muxW, muxWait,
                 inbound, connErr, netDown, ctlSent, torn, outbound, peerV,
                 winner, browserV>>

\* ------------------------------------------------------ native: Write
\* The data frames the local end has sent.
DataFrames(q) == SelectSeq(q, LAMBDA f : f.t # CloseMessage)

\* Write(b), entry: the call of c.mux.Lock(); the goroutine now waits for it.
NWriteCall(w, b) ==
  /\ backend = "native" /\ w \in callers /\ wpc[w] = "idle"
  /\ Len(DataFrames(outbound)) < MaxWrites
  /\ wbuf' = [wbuf EXCEPT ![w] = b]
  /\ wpc' = [wpc EXCEPT ![w] = "lock"]
  /\ muxWait' = muxWait \cup {w}
  /\ UNCHANGED <<fixedV, deadlineV, dialV, readV, wres, closeV, closeOnce, reader, muxR, muxW,
                 inbound, connErr, netDown, ctlSent, torn, outbound, peerV,
                 winner, readLog,
                 browserV>>

\* c.mux.Lock() can be granted: no goroutine holds the lock, for reading or
\* for writing.
CanLock == muxW = None /\ muxR = {}

\* Write: c.mux.Lock() is granted; the goroutine enters WriteMessage.
NWriteLock(w) ==
  /\ backend = "native" /\ wpc[w] = "lock"
  /\ CanLock
  /\ muxW' = w
  /\ muxWait' = muxWait \ {w}
  /\ wpc' = [wpc EXCEPT ![w] = "writing"]
  /\ UNCHANGED <<fixedV, deadlineV, dialV, readV, wbuf, wres, closeV, closeOnce, reader, muxR,
                 inbound, connErr, netDown, ctlSent, torn, outbound, peerV,
                 winner, readLog,
                 browserV>>

\* WriteResult with a short write: only the first byte of b is sent.
WriteResultShort(q, b, ok) ==
  IF ok THEN [out |-> WriteMessage(q, BinaryMessage, Take(b, Min(1, Len(b)))),
              res |-> Res(Min(1, Len(b)), NoErr)]
  ELSE [out |-> q, res |-> Res(0, WriteErr)]

\* Write, after WriteMessage returned ok or an error: the frames sent and
\* the (n, err) Write returns.
WriteResult(q, b, ok) ==
  IF ok THEN [out |-> WriteMessage(q, BinaryMessage, b), res |-> Res(Len(b), NoErr)]
  ELSE [out |-> q, res |-> Res(0, WriteErr)]

\* Write: WriteMessage returns; unlock and return.
NWriteDone(w) ==
  /\ backend = "native" /\ wpc[w] = "writing"
  /\ \E ok \in BOOLEAN :
       /\ ok => Writable
       /\ outbound' = WriteResult(outbound, wbuf[w], ok).out
       /\ wres' = [wres EXCEPT ![w] = WriteResult(outbound, wbuf[w], ok).res]
  /\ muxW' = None
  /\ wpc' = [wpc EXCEPT ![w] = "idle"]
  /\ UNCHANGED <<fixedV, deadlineV, dialV, readV, wbuf, closeV, closeOnce, reader, muxR, muxWait,
                 inbound, connErr, netDown, ctlSent, torn, peerV, winner,
                 readLog,
                 browserV>>

\* ------------------------------------------------------ native: Close
\* onceFirst without the Once: every arriving goroutine runs the function.
onceEvery == TRUE

\* sync.Once.Do: whether the arriving goroutine is the one that runs the
\* function.
onceFirst == closeOnce = "fresh"

\* Close(), entry: the goroutine arrives at c.closeOnce.Do.  The first runs
\* the function; one that arrives while it runs waits for it; one that
\* arrives after it returns at once with the nil err it declared.
NCloseCall(c) ==
  /\ backend = "native" /\ c \in callers /\ cpc[c] = "idle"
  /\ IF onceFirst
     THEN /\ closeOnce' = "running"
          /\ winner' = c
          /\ cpc' = [cpc EXCEPT ![c] = "ctl"]
          /\ UNCHANGED cres
     ELSE IF closeOnce = "running"
     THEN /\ cpc' = [cpc EXCEPT ![c] = "do"]
          /\ UNCHANGED <<cres, closeOnce, winner>>
     ELSE /\ cres' = [cres EXCEPT ![c] = Res(0, NoErr)]
          /\ UNCHANGED <<cpc, closeOnce, winner>>
  /\ UNCHANGED <<fixedV, deadlineV, dialV, readV, writeV, cerr1, reader, muxV, inbound, connErr,
                 netDown, ctlSent, torn, outbound, peerV, readLog,
                 browserV>>

\* Close: a goroutine that waited in Do for the running function returns nil.
NCloseWait(c) ==
  /\ backend = "native" /\ cpc[c] = "do"
  /\ closeOnce = "done"
  /\ cpc' = [cpc EXCEPT ![c] = "idle"]
  /\ cres' = [cres EXCEPT ![c] = Res(0, NoErr)]
  /\ UNCHANGED <<fixedV, deadlineV, dialV, readV, writeV, cerr1, closeOnce, reader, muxV, inbound,
                 connErr, netDown, ctlSent, torn, outbound, peerV, winner,
                 readLog,
                 browserV>>

\* Inside the Once: c.Conn.WriteControl(ws.CloseMessage, ...), which returns
\* within GracefulCloseTimeout with nil or an error.
NCloseCtl(c) ==
  /\ backend = "native" /\ cpc[c] = "ctl"
  /\ ctlSent' = ctlSent + 1
  /\ \E ok \in BOOLEAN :
       /\ ok => (torn = 0 /\ ~netDown)
       /\ outbound' = IF ok THEN Append(outbound, CloseFrame(CloseNormalClosure))
                      ELSE outbound
       /\ cerr1' = [cerr1 EXCEPT ![c] = IF ok THEN NoErr ELSE WriteErr]
  /\ cpc' = [cpc EXCEPT ![c] = "teardown"]
  /\ UNCHANGED <<fixedV, deadlineV, dialV, readV, writeV, cres, closeOnce, reader, muxV, inbound,
                 connErr, netDown, torn, peerV, winner, readLog,
                 browserV>>

\* Inside the Once: c.Conn.Close(), then err = multierr.Combine(err1, err2);
\* the Once is done and Close returns err.
NCloseTeardown(c) ==
  /\ backend = "native" /\ cpc[c] = "teardown"
  /\ torn' = torn + 1
  /\ \E err2 \in {NoErr, NetErr} :
       cres' = [cres EXCEPT ![c] = Res(0, Combine(cerr1[c], err2))]
  /\ cerr1' = [cerr1 EXCEPT ![c] = NoErr]
  /\ closeOnce' = "done"
  /\ cpc' = [cpc EXCEPT ![c] = "idle"]
  /\ UNCHANGED <<fixedV, deadlineV, dialV, readV, writeV, reader, muxV, inbound, connErr, netDown,
                 ctlSent, outbound, peerV, winner, readLog,
                 browserV>>

\* --------------------------------------------------- native: deadlines
DeadlineMethods == {"SetDeadline", "SetReadDeadline", "SetWriteDeadline"}

\* The instants t a caller passes; 0 is the zero time of a new connection.
DeadlineTimes == {1, 2}

\* A call of SetDeadline, SetReadDeadline or SetWriteDeadline with t.
\* SetWriteDeadline starts with c.mux.Lock(); the other two start with the
\* transport's SetReadDeadline and take no lock for it.
NSetCall(d, op, t) ==
  /\ backend = "native" /\ d \in callers /\ dpc[d] = "idle"
  /\ dop' = [dop EXCEPT ![d] = op]
  /\ dt' = [dt EXCEPT ![d] = t]
  /\ dpc' = [dpc EXCEPT ![d] = IF op = "SetWriteDeadline" THEN "lock" ELSE "read"]
  /\ muxWait' = IF op = "SetWriteDeadline" THEN muxWait \cup {d} ELSE muxWait
  /\ UNCHANGED <<fixedV, dialV, dres, readDeadline, writeDeadline, readV, writeV,
                 closeV, closeOnce, reader, muxR, muxW, inbound, connErr,
                 netDown, ctlSent, torn, outbound, peerV, winner, readLog,
                 browserV>>

\* SetDeadline that goes on to the write deadline whatever SetReadDeadline
\* returned.
SetDeadlineIgnoreErr(op, ok) ==
  IF op = "SetReadDeadline" THEN "return" ELSE "lock"

\* After c.SetReadDeadline(t) returned (ok: with nil): SetReadDeadline
\* returns its result; SetDeadline returns the error, or goes on to
\* c.SetWriteDeadline(t).
SetDeadline(op, ok) ==
  IF op = "SetReadDeadline" \/ ~ok THEN "return" ELSE "lock"

\* c.Conn.SetReadDeadline(t): the transport takes t, or fails and keeps the
\* deadline it had.
NSetRead(d) ==
  /\ backend = "native" /\ dpc[d] = "read"
  /\ \E ok \in BOOLEAN :
       /\ readDeadline' = IF ok THEN dt[d] ELSE readDeadline
       /\ IF SetDeadline(dop[d], ok) = "return"
          THEN /\ dres' = [dres EXCEPT ![d] = Res(0, IF ok THEN NoErr ELSE NetErr)]
               /\ dpc' = [dpc EXCEPT ![d] = "idle"]
               /\ UNCHANGED muxWait
          ELSE /\ dpc' = [dpc EXCEPT ![d] = "lock"]
               /\ muxWait' = muxWait \cup {d}
               /\ UNCHANGED dres
  /\ UNCHANGED <<fixedV, dialV, dop, dt, writeDeadline, readV, writeV, closeV,
                 closeOnce, reader, muxR, muxW, inbound, connErr, netDown,
                 ctlSent, torn, outbound, peerV, winner, readLog, browserV>>

\* SetWriteDeadline: c.mux.Lock() is granted.
NSetLock(d) ==
  /\ backend = "native" /\ dpc[d] = "lock"
  /\ CanLock
  /\ muxW' = d
  /\ muxWait' = muxWait \ {d}
  /\ dpc' = [dpc EXCEPT ![d] = "write"]
  /\ UNCHANGED <<fixedV, dialV, dop, dt, dres, readDeadline, writeDeadline,
                 readV, writeV, closeV, closeOnce, reader, muxR, inbound,
                 connErr, netDown, ctlSent, torn, outbound, peerV, winner,
                 readLog, browserV>>

\* SetWriteDeadline: c.Conn.SetWriteDeadline(t), c.mux.Unlock(), return err.
NSetWrite(d) ==
  /\ backend = "native" /\ dpc[d] = "write"
  /\ \E ok \in BOOLEAN :
       /\ writeDeadline' = IF ok THEN dt[d] ELSE writeDeadline
       /\ dres' = [dres EXCEPT ![d] = Res(0, IF ok THEN NoErr ELSE NetErr)]
  /\ muxW' = None
  /\ dpc' = [dpc EXCEPT ![d] = "idle"]
  /\ UNCHANGED <<fixedV, dialV, dop, dt, readDeadline, readV, writeV, closeV,
                 closeOnce, reader, muxR, muxWait, inbound, connErr, netDown,
                 ctlSent, torn, outbound, peerV, winner, readLog, browserV>>

\* --------------------------------------------------- native: the peer
\* The peer's Conn writes a buffer of k bytes: one frame arrives.
NPeerWrite(k) ==
  /\ backend = "native" /\ "peer" \in callers
  /\ peerClosed = 0 /\ torn = 0 /\ ~netDown
  /\ inbound' = WriteMessage(inbound, BinaryMessage, PeerBytes(k))
  /\ peerNext' = peerNext + k
  /\ peerFrames' = peerFrames + 1
  /\ UNCHANGED <<fixedV, deadlineV, dialV, readV, writeV, closeV, closeOnce, reader, muxV, connErr,
                 netDown, ctlSent, torn, outbound, peerClosed, winner, readLog,
                 browserV>>

\* The peer closes: its close frame, with a status code, arrives.
NPeerClose(code) ==
  /\ backend = "native" /\ "peer" \in callers
  /\ peerClosed = 0 /\ torn = 0 /\ ~netDown
  /\ inbound' = Append(inbound, CloseFrame(code))
  /\ peerClosed' = code
  /\ UNCHANGED <<fixedV, deadlineV, dialV, readV, writeV, closeV, closeOnce, reader, muxV, connErr,
                 netDown, ctlSent, torn, outbound, peerNext, peerFrames, winner,
                 readLog,
                 browserV>>

\* The network fails.  With cut, the failure falls inside the last buffered
\* data frame, whose final byte never arrives.
NNetError(cut) ==
  /\ backend = "native" /\ "peer" \in callers
  /\ ~netDown /\ torn = 0 /\ peerClosed = 0
  /\ netDown' = TRUE
  /\ IF cut
     THEN /\ inbound # <<>>
          /\ LET i == Len(inbound) IN
             /\ inbound[i].data # <<>>
             /\ inbound' = [inbound EXCEPT ![i] =
                   [@ EXCEPT !.data = Take(@, Len(@) - 1), !.cut = TRUE]]
     ELSE UNCHANGED inbound
  /\ UNCHANGED <<fixedV, deadlineV, dialV, readV, writeV, closeV, closeOnce, reader, muxV, connErr,
                 ctlSent, torn, outbound, peerV, winner, readLog,
                 browserV>>

\* ------------------------------------------- the JavaScript WebSocket
EventTypes == {"message", "close", "error"}
Undefined == "undefined"
NoCode == 0 - 1

\* The close event the host dispatches: type, status code and reason.
CloseEvent(code, reason) == [type |-> "close", code |-> code, reason |-> reason]

\* WebSocket.close(): an open (or connecting) socket starts closing; on a
\* closing or closed one the call does nothing.
JSClose(state) ==
  IF state \in {webSocketStateConnecting, webSocketStateOpen}
  THEN webSocketStateClosing ELSE state

\* byte(x) of a JavaScript number
byte(x) == x % 256

\* arrayBufferToBytes: a byte slice of the view's length, filled index by index.
arrayBufferToBytes(buffer) == [i \in 1..Len(buffer) |-> byte(buffer[i])]

\* The Uint8Array that Write fills from b, index by index, and sends.
bytesToArrayBuffer(b) == [i \in 1..Len(b) |-> b[i]]

\* bytes.Buffer.Read that discards what does not fit in b.
BufferReadDropRest(buf, k) ==
  IF buf = <<>>
  THEN [n |-> 0, err |-> EOF, data |-> <<>>, rest |-> <<>>]
  ELSE LET n == Min(k, Len(buf)) IN
       [n |-> n, err |-> NoErr, data |-> Take(buf, n), rest |-> <<>>]

\* bytes.Buffer.Read(b) with len(b) = k > 0: io.EOF on an empty buffer,
\* otherwise the first min(k, len) bytes, which leave the buffer.
BufferRead(buf, k) ==
  IF buf = <<>>
  THEN [n |-> 0, err |-> EOF, data |-> <<>>, rest |-> <<>>]
  ELSE LET n == Min(k, Len(buf)) IN
       [n |-> n, err |-> NoErr, data |-> Take(buf, n), rest |-> Drop(buf, n)]

\* errorEventToError
errorEventToError(val) ==
  LET typ == IF val.type # Undefined THEN val.type ELSE "object"
      reason ==
        IF val.reason # Undefined /\ val.reason # ""
        THEN val.reason
        ELSE IF val.code # NoCode
        THEN IF val.code = CloseAbnormalClosure
             THEN "code 1006: connection unexpectedly closed"
             ELSE "unexpected code: " \o ToString(val.code)
        ELSE ""
  IN  Err("*fmt.errorString", 0, "JavaScript error: (" \o typ \o ") " \o reason)

\* checkOpen that takes a closing socket for an open one.
checkOpenClosedOnly(state) ==
  IF state = webSocketStateClosed THEN errConnectionClosed ELSE NoErr

\* ------------------------------------------------------ browser: Read
\* checkOpen
checkOpen(state) ==
  IF state \in {webSocketStateClosed, webSocketStateClosing}
  THEN errConnectionClosed ELSE NoErr

\* Read(b), entry: checkOpen decides between the loop and readAfterErr.
BReadCall(r, k) ==
  /\ backend = "browser" /\ r \in callers /\ rpc[r] = "idle"
  /\ rlen' = [rlen EXCEPT ![r] = k]
  /\ rsub' = [rsub EXCEPT ![r] = closeReturned]
  /\ rpc' = [rpc EXCEPT ![r] = IF checkOpen(readyState) # NoErr THEN "after" ELSE "drain"]
  /\ UNCHANGED <<fixedV, deadlineV, dialV, rres, writeV, closeV, closeOnce, gorillaV, outbound,
                 peerV, winner, readLog, browserV>>

\* Read: the top of the loop, c.currData.Read(b) under the buffer's lock.
BReadDrain(r) ==
  /\ backend = "browser" /\ rpc[r] = "drain"
  /\ LET q == BufferRead(currData, rlen[r]) IN
     /\ currData' = q.rest
     /\ IF q.n # 0
        THEN ReadReturn(r, q.n, NoErr, q.data)
        ELSE /\ rpc' = [rpc EXCEPT ![r] = "wait"]
             /\ UNCHANGED <<rres, readLog>>
  /\ UNCHANGED <<fixedV, deadlineV, dialV, rlen, rsub, writeV, closeV, closeOnce, gorillaV,
                 outbound, peerV, winner, dataSignal, closeSignal, firstErr,
                 chV, jsV>>

\* Read: the select takes the data signal and loops.
BReadWake(r) ==
  /\ backend = "browser" /\ rpc[r] = "wait"
  /\ dataSignal > 0
  /\ dataSignal' = dataSignal - 1
  /\ rpc' = [rpc EXCEPT ![r] = "drain"]
  /\ UNCHANGED <<fixedV, deadlineV, dialV, rlen, rres, rsub, writeV, closeV, closeOnce, gorillaV,
                 outbound, peerV, winner, readLog, currData, closeSignal,
                 firstErr, chV, jsV>>

\* Read: the select sees the close signal and goes to readAfterErr.
BReadClosed(r) ==
  /\ backend = "browser" /\ rpc[r] = "wait"
  /\ closeSignal
  /\ rpc' = [rpc EXCEPT ![r] = "after"]
  /\ UNCHANGED <<fixedV, deadlineV, dialV, rlen, rres, rsub, writeV, closeV, closeOnce, gorillaV,
                 outbound, peerV, winner, readLog, browserV>>

\* readAfterErr that reports the end without reading the buffer first.
readAfterErrNoDrain(buf, k, ferr) ==
  [n |-> 0, err |-> IF ferr # NoErr THEN ferr ELSE EOF, data |-> <<>>, rest |-> buf]

\* readAfterErr on the buffer and c.firstErr: what it returns.
readAfterErr(buf, k, ferr) ==
  LET q == BufferRead(buf, k) IN
  IF q.n = 0
  THEN [n |-> 0, err |-> IF ferr # NoErr THEN ferr ELSE EOF, data |-> <<>>, rest |-> q.rest]
  ELSE [n |-> q.n, err |-> q.err, data |-> q.data, rest |-> q.rest]

\* Read: readAfterErr(b).
BReadAfter(r) ==
  /\ backend = "browser" /\ rpc[r] = "after"
  /\ LET q == readAfterErr(currData, rlen[r], firstErr) IN
     /\ currData' = q.rest
     /\ ReadReturn(r, q.n, q.err, q.data)
  /\ UNCHANGED <<fixedV, deadlineV, dialV, rlen, rsub, writeV, closeV, closeOnce, gorillaV,
                 outbound, peerV, winner, dataSignal, closeSignal, firstErr,
                 chV, jsV>>

\* ----------------------------------------------------- browser: Write
\* Write(b), entry.
BWriteCall(w, b) ==
  /\ backend = "browser" /\ w \in callers /\ wpc[w] = "idle"
  /\ Len(outbound) < MaxWrites
  /\ wbuf' = [wbuf EXCEPT ![w] = b]
  /\ wpc' = [wpc EXCEPT ![w] = "check"]
  /\ UNCHANGED <<fixedV, deadlineV, dialV, readV, wres, closeV, closeOnce, gorillaV, outbound,
                 peerV, winner, readLog, browserV>>

\* Write, from checkOpen to its return: what is sent and what it returns.
BWriteResult(q, b, state) ==
  IF checkOpen(state) # NoErr
  THEN [out |-> q, res |-> Res(0, checkOpen(state))]
  ELSE [out |-> Append(q, Frame(BinaryMessage, bytesToArrayBuffer(b))),
        res |-> Res(Len(b), NoErr)]

BWriteRun(w) ==
  /\ backend = "browser" /\ wpc[w] = "check"
  /\ outbound' = BWriteResult(outbound, wbuf[w], readyState).out
  /\ wres' = [wres EXCEPT ![w] = BWriteResult(outbound, wbuf[w], readyState).res]
  /\ wpc' = [wpc EXCEPT ![w] = "idle"]
  /\ UNCHANGED <<fixedV, deadlineV, dialV, readV, wbuf, closeV, closeOnce, gorillaV, peerV,
                 winner, readLog, browserV>>

\* ----------------------------------------------------- browser: Close
\* signalClose that marks the Once done without closing the channel.
signalCloseLost ==
  /\ closeSignal' = closeSignal
  /\ closeOnce' = "done"

\* signalClose: the Once closes c.closeSignal.
signalClose ==
  /\ closeSignal' = IF onceFirst THEN TRUE ELSE closeSignal
  /\ closeOnce' = "done"

\* releaseHandlers: the three handlers were created by NewConn and are never
\* set back to nil, so each is removed from the socket and released.
releaseHandlers ==
  /\ listeners' = {}
  /\ released' = [h \in EventTypes |-> released[h] + 1]

\* The body of Close: signalClose, the socket's close method, releaseHandlers.
\* state is the socket's readyState when Close runs.
CloseBody(state) ==
  /\ signalClose
  /\ readyState' = JSClose(state)
  /\ closeCalls' = closeCalls + 1
  /\ releaseHandlers

\* Close(), called by a goroutine; it has no point at which it can block.
BClose(c) ==
  /\ backend = "browser" /\ c \in callers /\ cpc[c] = "idle"
  /\ closeCalls < MaxCloseCalls
  /\ CloseBody(readyState)
  /\ cres' = [cres EXCEPT ![c] = Res(0, NoErr)]
  /\ UNCHANGED <<fixedV, deadlineV, dialV, readV, writeV, cpc, cerr1, gorillaV, outbound, peerV,
                 winner, readLog, bufV, firstErr, chV>>

\* ------------------------------------------- browser: the event handlers
\* The message handler without its notify on c.dataSignal.
messageHandlerNoNotify(data) ==
  /\ currData' = currData \o arrayBufferToBytes(data)
  /\ dataSignal' = dataSignal

\* The message handler if it replaced the buffer instead of appending to it.
messageHandlerOverwrite(data) ==
  /\ currData' = arrayBufferToBytes(data)
  /\ dataSignal' = 1

\* The message handler, on a message event carrying data.
messageHandler(data) ==
  /\ currData' = currData \o arrayBufferToBytes(data)
  /\ dataSignal' = 1

\* The peer's Conn writes k bytes.  The socket dispatches a message event if
\* it is open; the handler runs if it is still attached.
BPeerWrite(k) ==
  /\ backend = "browser" /\ "peer" \in callers
  /\ peerClosed = 0 /\ readyState # webSocketStateClosed
  /\ peerNext' = peerNext + k
  /\ peerFrames' = peerFrames + 1
  /\ IF readyState = webSocketStateOpen /\ "message" \in listeners
     THEN messageHandler(PeerBytes(k))
     ELSE UNCHANGED bufV
  /\ UNCHANGED <<fixedV, deadlineV, dialV, readV, writeV, closeV, closeOnce, gorillaV, outbound,
                 peerClosed, winner, readLog, closeSignal, firstErr, chV, jsV>>

\* The peer closes with a status code: the closing handshake starts.
BPeerClosing(code) ==
  /\ backend = "browser" /\ "peer" \in callers
  /\ peerClosed = 0 /\ readyState = webSocketStateOpen
  /\ peerClosed' = code
  /\ readyState' = webSocketStateClosing
  /\ UNCHANGED <<fixedV, deadlineV, dialV, readV, writeV, closeV, closeOnce, gorillaV, outbound,
                 peerNext, peerFrames, winner, readLog, bufV, closeSignal,
                 firstErr, chV, listeners, closeCalls, released>>

\* The close event of a connection that ended: the peer's code with the
\* reason its Close gives, no status after a local close, abnormal otherwise.
EndEvent ==
  IF peerClosed # 0
  THEN CloseEvent(peerClosed, IF peerClosed = CloseNormalClosure THEN "closed" ELSE "")
  ELSE IF closeCalls > 0 THEN CloseEvent(CloseNoStatusReceived, "")
  ELSE CloseEvent(CloseAbnormalClosure, "")

\* The connection ends: the socket is closed and dispatches its close
\* event.  The close handler, if attached, starts its goroutine.
BCloseEvent ==
  /\ backend = "browser"
  /\ readyState \in {webSocketStateOpen, webSocketStateClosing}
  /\ readyState' = webSocketStateClosed
  /\ IF "close" \in listeners
     THEN chpc' = "signal" /\ chev' = EndEvent
     ELSE UNCHANGED chV
  /\ UNCHANGED <<fixedV, deadlineV, dialV, readV, writeV, closeV, closeOnce, gorillaV, outbound,
                 peerV, winner, readLog, bufV, closeSignal, firstErr,
                 listeners, closeCalls, released>>

\* The close handler's goroutine: c.signalClose().
CHSignal ==
  /\ backend = "browser" /\ chpc = "signal"
  /\ signalClose
  /\ chpc' = "store"
  /\ UNCHANGED <<fixedV, deadlineV, dialV, readV, writeV, closeV, gorillaV, outbound, peerV,
                 winner, readLog, bufV, firstErr, chev, jsV>>

\* The close handler's goroutine: c.firstErr = errorEventToError(args[0]).
CHStore ==
  /\ backend = "browser" /\ chpc = "store"
  /\ firstErr' = errorEventToError(chev)
  /\ chpc' = "release"
  /\ UNCHANGED <<fixedV, deadlineV, dialV, readV, writeV, closeV, closeOnce, gorillaV, outbound,
                 peerV, winner, readLog, bufV, closeSignal, chev, jsV>>

\* The close handler's goroutine: c.releaseHandlers().
CHRelease ==
  /\ backend = "browser" /\ chpc = "release"
  /\ releaseHandlers
  /\ chpc' = "done"
  /\ UNCHANGED <<fixedV, deadlineV, dialV, readV, writeV, closeV, closeOnce, gorillaV, outbound,
                 peerV, winner, readLog, bufV, closeSignal, firstErr, chev,
                 readyState, closeCalls>>

\* ------------------------------------------------- browser: the dial
\* The socket opens: it dispatches its open event, which closes openSignal
\* if waitForOpen has attached its listener.
BOpenEvent ==
  /\ backend = "browser"
  /\ readyState = webSocketStateConnecting
  /\ readyState' = webSocketStateOpen
  /\ openSignal' = (opc = "select")
  /\ UNCHANGED <<fixedV, deadlineV, opc, ores, readV, writeV, closeV, closeOnce,
                 gorillaV, outbound, peerV, winner, readLog, bufV, closeSignal,
                 firstErr, chV, listeners, closeCalls, released>>

\* waitForOpen: what the select returns, on openSignal (opened) or else on
\* c.closeSignal, given c.firstErr.
waitForOpen(opened, ferr) == IF opened THEN NoErr ELSE ferr

\* waitForOpen: the select takes openSignal.
WOOpen ==
  /\ backend = "browser" /\ opc = "select"
  /\ openSignal
  /\ ores' = Res(0, waitForOpen(TRUE, firstErr))
  /\ opc' = "done"
  /\ UNCHANGED <<fixedV, deadlineV, openSignal, readV, writeV, closeV,
                 closeOnce, gorillaV, outbound, peerV, winner, readLog,
                 browserV>>

\* waitForOpen: the select takes c.closeSignal.
WOClosed ==
  /\ backend = "browser" /\ opc = "select"
  /\ closeSignal
  /\ ores' = Res(0, waitForOpen(FALSE, firstErr))
  /\ opc' = "done"
  /\ UNCHANGED <<fixedV, deadlineV, openSignal, readV, writeV, closeV,
                 closeOnce, gorillaV, outbound, peerV, winner, readLog,
                 browserV>>

\* The connection fails: the socket is closed and dispatches an error event
\* and then a close event.  The error handler, if attached, calls Close
\* before the close event is dispatched.
BErrorEvent ==
  /\ backend = "browser"
  /\ readyState # webSocketStateClosed
  /\ IF "error" \in listeners
     THEN /\ closeCalls < MaxCloseCalls
          /\ CloseBody(webSocketStateClosed)
     ELSE /\ readyState' = webSocketStateClosed
          /\ UNCHANGED <<closeOnce, closeSignal, listeners, closeCalls, released>>
  /\ UNCHANGED <<fixedV, deadlineV, dialV, readV, writeV, closeV, gorillaV, outbound, peerV,
                 winner, readLog, bufV, firstErr, chV>>

\* -------------------------------------------------------- specification
\* The buffers a caller hands to Write.
Buffers(n) == UNION {[1..k -> {7}] : k \in 0..n}

\* The sets of callers a behaviour runs: a reader against a closer and the
\* peer; and two closers against a writer.
Configurations == {{"r1", "c1", "peer"}, {"c1", "c2", "w1"}}

\* The status codes the peer closes with: normal closure, going away.
PeerCloseCodes == {CloseNormalClosure, 1001}

\* The peer writes at most MaxFrames buffers and MaxBytes bytes.
PeerMay(k) == peerFrames < MaxFrames /\ peerNext + k - 1 <= MaxBytes

\* The fields of a Conn as NewConn returns it, and its transport, with no
\* call made yet.
NewConn ==
  /\ rpc = [r \in Readers |-> "idle"]
  /\ rres = [r \in Readers |-> NoRes]
  /\ rsub = [r \in Readers |-> FALSE]
  /\ wpc = [w \in Writers |-> "idle"]
  /\ wbuf = [w \in Writers |-> <<>>]
  /\ wres = [w \in Writers |-> NoRes]
  /\ cpc = [c \in Closers |-> "idle"]
  /\ cerr1 = [c \in Closers |-> NoErr]
  /\ cres = [c \in Closers |-> NoRes]
  /\ closeOnce = "fresh"
  /\ reader = NilReader
  /\ muxR = {} /\ muxW = None /\ muxWait = {}
  /\ inbound = <<>> /\ connErr = NoErr /\ netDown = FALSE
  /\ ctlSent = 0 /\ torn = 0 /\ outbound = <<>>
  /\ peerNext = 1 /\ peerFrames = 0 /\ peerClosed = 0
  /\ winner = None
  /\ readLog = <<>>
  /\ currData = <<>> /\ dataSignal = 0 /\ closeSignal = FALSE
  /\ firstErr = NoErr
  /\ chpc = "idle" /\ chev = CloseEvent(NoCode, Undefined)
  /\ listeners = EventTypes
  /\ closeCalls = 0
  /\ released = [h \in EventTypes |-> 0]
  /\ dpc = [d \in Deadliners |-> "idle"]
  /\ dop = [d \in Deadliners |-> None]
  /\ dt = [d \in Deadliners |-> 0]
  /\ dres = [d \in Deadliners |-> NoRes]
  /\ readDeadline = 0 /\ writeDeadline = 0
  /\ openSignal = FALSE /\ ores = NoRes

\* An established connection: the socket is open, nothing waits for it to be.
InitConn ==
  /\ NewConn
  /\ readyState = webSocketStateOpen
  /\ opc = "idle"

Init ==
  /\ backend \in {"native", "browser"}
  /\ callers \in Configurations
  /\ rlen = [r \in Readers |-> 0]
  /\ InitConn

NativeNext ==
  \/ \E r \in Readers, k \in 1..MaxBufLen : NReadCall(r, k)
  \/ \E r \in Readers : NReadPrep(r)
  \/ \E r \in Readers : NReadLoop(r)
  \/ \E w \in Writers, b \in Buffers(MaxWriteLen) : NWriteCall(w, b)
  \/ \E w \in Writers : NWriteLock(w)
  \/ \E w \in Writers : NWriteDone(w)
  \/ \E c \in Closers : NCloseCall(c)
  \/ \E c \in Closers : NCloseWait(c)
  \/ \E c \in Closers : NCloseCtl(c)
  \/ \E c \in Closers : NCloseTeardown(c)
  \/ \E k \in 0..MaxFrameLen : PeerMay(k) /\ NPeerWrite(k)
  \/ \E code \in {CloseNormalClosure, CloseNoStatusReceived, CloseAbnormalClosure} :
        NPeerClose(code)
  \/ \E cut \in BOOLEAN : NNetError(cut)

BrowserNext ==
  \/ \E r \in Readers, k \in 1..MaxBufLen : BReadCall(r, k)
  \/ \E r \in Readers : BReadDrain(r)
  \/ \E r \in Readers : BReadWake(r)
  \/ \E r \in Readers : BReadClosed(r)
  \/ \E r \in Readers : BReadAfter(r)
  \/ \E w \in Writers, b \in Buffers(MaxWriteLen) : BWriteCall(w, b)
  \/ \E w \in Writers : BWriteRun(w)
  \/ \E c \in Closers : BClose(c)
  \/ \E k \in 0..MaxFrameLen : PeerMay(k) /\ BPeerWrite(k)
  \/ \E code \in PeerCloseCodes : BPeerClosing(code)
  \/ BCloseEvent
  \/ CHSignal
  \/ CHStore
  \/ CHRelease
  \/ BErrorEvent

Next == NativeNext \/ BrowserNext

Spec == Init /\ [][Next]_vars

\* The browser build under the Go scheduler: a goroutine that can run does
\* run.  A Read in progress takes its next step (of a select with both
\* channels ready, either case), and the goroutine the close handler started
\* runs to its end.  Calls by the user, and the events of the socket and of
\* the peer, are under no obligation to happen.
BrowserFairness ==
  /\ \A r \in Readers :
       /\ WF_vars(BReadDrain(r))
       /\ WF_vars(BReadWake(r) \/ BReadClosed(r))
       /\ WF_vars(BReadAfter(r))
  /\ WF_vars(CHSignal)
  /\ WF_vars(CHStore)
  /\ WF_vars(CHRelease)

BrowserInit ==
  /\ backend = "browser"
  /\ callers \in Configurations
  /\ rlen = [r \in Readers |-> 0]
  /\ InitConn

FairSpec ==
  /\ BrowserInit
  /\ [][BrowserNext]_vars
  /\ BrowserFairness

\* ------------------------------------------- concurrent calls (native)
\* The native build with goroutines calling concurrently: two readers
\* against the peer; and a reader, a writer and a deadline setter with no
\* peer traffic at all.
ConcurrentConfigurations == {{"r1", "r2", "peer"}, {"r1", "w1", "d1"}}

ConcurrentInit ==
  /\ backend = "native"
  /\ callers \in ConcurrentConfigurations
  /\ rlen = [r \in Readers |-> 0]
  /\ InitConn

ConcurrentNext ==
  \/ \E r \in Readers, k \in 1..MaxBufLen : NReadCall(r, k)
  \/ \E r \in Readers : NReadPrep(r)
  \/ \E r \in Readers : NReadLoop(r)
  \/ \E w \in Writers, b \in Buffers(MaxWriteLen) : NWriteCall(w, b)
  \/ \E w \in Writers : NWriteLock(w)
  \/ \E w \in Writers : NWriteDone(w)
  \/ \E d \in Deadliners, op \in DeadlineMethods, t \in DeadlineTimes :
        NSetCall(d, op, t)
  \/ \E d \in Deadliners : NSetRead(d)
  \/ \E d \in Deadliners : NSetLock(d)
  \/ \E d \in Deadliners : NSetWrite(d)
  \/ \E k \in 0..MaxFrameLen : PeerMay(k) /\ NPeerWrite(k)
  \/ NPeerClose(CloseNormalClosure)

SpecConcurrent == ConcurrentInit /\ [][ConcurrentNext]_vars

\* ----------------------------------------------------- the dial (browser)
\* The browser build from the dial on: NewConn has wrapped a connecting
\* socket and waitForOpen is in its select.  The connection is handed to its
\* users once waitForOpen has returned nil.
DialInit ==
  /\ backend = "browser"
  /\ callers \in Configurations
  /\ rlen = [r \in Readers |-> 0]
  /\ NewConn
  /\ readyState = webSocketStateConnecting
  /\ opc = "select"

Dialed == opc = "done" /\ ores = Res(0, NoErr)

DialNext ==
  \/ BOpenEvent
  \/ WOOpen
  \/ WOClosed
  \/ BCloseEvent
  \/ BErrorEvent
  \/ CHSignal
  \/ CHStore
  \/ CHRelease
  \/ \E r \in Readers, k \in 1..MaxBufLen : Dialed /\ BReadCall(r, k)
  \/ \E r \in Readers : BReadDrain(r)
  \/ \E r \in Readers : BReadWake(r)
  \/ \E r \in Readers : BReadClosed(r)
  \/ \E r \in Readers : BReadAfter(r)
  \/ \E c \in Closers : Dialed /\ BClose(c)
  \/ \E k \in 0..MaxFrameLen :
        readyState # webSocketStateConnecting /\ PeerMay(k) /\ BPeerWrite(k)
  \/ \E code \in PeerCloseCodes : BPeerClosing(code)

SpecDial == DialInit /\ [][DialNext]_vars

\* ---------------------------------------------- the three-frame scenario
\* The native build receiving frames of 10, 0 and 5 bytes and then a close
\* frame with normal closure, read by one goroutine whose buffers all have
\* the same length, 3 or 8.
ScenarioFrames == <<10, 0, 5>>
ScenarioBufLens == {3, 8}

ScenarioInit ==
  /\ backend = "native"
  /\ callers = {"r1", "peer"}
  /\ rlen \in {[r \in Readers |-> k] : k \in ScenarioBufLens}
  /\ InitConn

ScenarioNext ==
  \/ \E r \in Readers : NReadCall(r, rlen[r])
  \/ \E r \in Readers : NReadPrep(r)
  \/ \E r \in Readers : NReadLoop(r)
  \/ /\ peerFrames < Len(ScenarioFrames)
     /\ NPeerWrite(ScenarioFrames[peerFrames + 1])
  \/ /\ peerFrames = Len(ScenarioFrames)
     /\ NPeerClose(CloseNormalClosure)

SpecScenario == ScenarioInit /\ [][ScenarioNext]_vars

\* ================================================================ claims
\* A result that ends the stream: 0 bytes with end-of-stream or an error.
IsTerminal(res) == res # NoRes /\ res.n = 0 /\ res.err # NoErr

\* C1: native backend: however many Close calls are made, in whatever
\* interleaving, the close control frame is sent at most once and the
\* transport is torn down at most once, and only the goroutine that ran the
\* close sequence (the winner) can have received a non-nil error: every other
\* caller returned nil.
C1_CloseOnce ==
  backend = "native" =>
    /\ ctlSent <= 1
    /\ torn <= 1
    /\ \A c \in Closers : cres[c] # NoRes /\ cres[c].err # NoErr => c = winner

\* C1 witness: both closers have returned, the winner with the combined
\* error of a failed close frame and a failed teardown, the other with nil.
C1_Witness ==
  /\ backend = "native"
  /\ winner = "c1" /\ cres["c1"].err = Combine(WriteErr, NetErr)
  /\ cres["c2"] = Res(0, NoErr)
  /\ ctlSent = 1 /\ torn = 1

\* C2: browser backend: over any sequence of Close calls, error events and
\* close events, the socket's close method is called at most once and each of
\* the three listeners is removed and released at most once.
C2_ShutdownOnce ==
  backend = "browser" =>
    /\ closeCalls <= 1
    /\ \A h \in EventTypes : released[h] <= 1

\* C3 (as claimed): a Read called after a Close returned never returns
\* bytes: its result is end-of-stream or an error.
C3_NoStaleRead ==
  \A r \in Readers :
    rpc[r] = "idle" /\ rsub[r] /\ rres[r] # NoRes => IsTerminal(rres[r])

\* The bytes received and not yet handed to a Read.
Buffered ==
  IF backend = "native"
  THEN reader.data \o Flatten([i \in 1..Len(inbound) |-> inbound[i].data])
  ELSE currData

\* A Read in progress can take its next step: it is not suspended.
CanStep(r) ==
  CASE rpc[r] = "prep" -> NextReaderOutcomes # {}
    [] rpc[r] = "wait" -> closeSignal \/ dataSignal > 0
    [] OTHER -> TRUE

\* C3 (amended): a Read called after a Close returned is never suspended,
\* and it returns end-of-stream or an error only when no received byte is
\* left to return: until then it returns the bytes received before the Close.
C3_ReadAfterClose ==
  \A r \in Readers :
    rsub[r] =>
      /\ rpc[r] # "idle" => CanStep(r)
      /\ rpc[r] = "idle" /\ rres[r] # NoRes =>
           \/ rres[r].n >= 1 /\ rres[r].err = NoErr
           \/ IsTerminal(rres[r]) /\ Buffered = <<>>

\* C3 witness: a Read called after Close returned has itself returned bytes
\* that were buffered before the Close.
C3_Witness ==
  \E r \in Readers :
    /\ rpc[r] = "idle" /\ rsub[r] /\ rres[r].n >= 1
    /\ readLog # <<>>

\* C4: Read never returns 0 bytes with a nil error (callers' buffers are
\* non-empty), in either backend.
C4_NoEmptyRead ==
  \A r \in Readers : rres[r] # NoRes => ~(rres[r].n = 0 /\ rres[r].err = NoErr)

\* C4 witness: a Read has returned bytes after the frames before them
\* included a zero-length one (native), so the loop passed an exhausted
\* frame without returning.
C4_Witness ==
  /\ backend = "native"
  /\ peerFrames = 2 /\ peerNext = 2 /\ inbound = <<>>
  /\ \E r \in Readers : rpc[r] = "idle" /\ rres[r] = Res(1, NoErr)
  /\ reader = NilReader

\* The local end started closing the connection itself.
LocalClosed == IF backend = "native" THEN closeOnce # "fresh" ELSE closeCalls > 0

\* The bytes the Reads have returned so far, in order.
Received == Flatten(readLog)

\* C5: the peer's Writes carry the bytes 1, 2, 3, ... in order.  Whatever the
\* frame sizes and the read-buffer sizes, the concatenation of the chunks
\* returned by successful Reads is a prefix of what the peer wrote (no byte
\* lost, duplicated or reordered), and it is all of it once a Read has
\* returned end-of-stream after the peer closed gracefully (normal closure,
\* the local end not having closed the connection itself).
C5_ByteStream ==
  /\ Len(Received) <= peerNext - 1
  /\ Received = [i \in 1..Len(Received) |-> i]
  /\ \A r \in Readers :
       /\ rres[r] = Res(0, EOF)
       /\ peerClosed = CloseNormalClosure
       /\ ~LocalClosed
       => Len(Received) = peerNext - 1

\* C5 witness: the peer wrote three bytes in at least two frames and closed
\* gracefully; the Reads returned them in two or more chunks, in order, and
\* then end-of-stream.
C5_Witness ==
  /\ peerFrames >= 2 /\ peerNext = 4 /\ peerClosed = CloseNormalClosure
  /\ ~LocalClosed
  /\ Len(readLog) >= 2 /\ Received = <<1, 2, 3>>
  /\ \E r \in Readers : rpc[r] = "idle" /\ rres[r] = Res(0, EOF)

\* A Write of goroutine w returns in this step.
WriteReturns(w) == wpc[w] # "idle" /\ wpc'[w] = "idle"

\* C6: native backend: the step in which a Write returns either hands the
\* whole buffer to the transport as exactly one binary frame and returns
\* (len(b), nil), or sends nothing and returns (0, err) with err non-nil; no
\* other step of a Write sends a data frame.  So 0 < n < len(b) never occurs
\* and no call emits more than one frame.
C6_WriteOneFrame ==
  [][backend = "native" =>
       /\ \A w \in Writers : WriteReturns(w) =>
            \/ /\ wres'[w] = Res(Len(wbuf[w]), NoErr)
               /\ outbound' = Append(outbound, Frame(BinaryMessage, wbuf[w]))
            \/ /\ wres'[w].n = 0 /\ wres'[w].err # NoErr
               /\ outbound' = outbound
       /\ (\A w \in Writers : ~WriteReturns(w)) =>
            DataFrames(outbound') = DataFrames(outbound)]_vars

\* C6 witness: a Write of a two-byte buffer returned (2, nil) and the last
\* frame handed to the transport is one binary frame holding that buffer.
C6_Witness ==
  /\ backend = "native"
  /\ wpc["w1"] = "idle" /\ wbuf["w1"] = <<7, 7>> /\ wres["w1"] = Res(2, NoErr)
  /\ outbound # <<>> /\ outbound[Len(outbound)] = Frame(BinaryMessage, <<7, 7>>)

\* C7: browser backend: a Write that runs while the socket is closing or
\* closed, which is the case at any time after Close was called, returns
\* (0, errConnectionClosed) and sends nothing; a Write that runs while the
\* socket is open sends the whole buffer in exactly one send and returns
\* (len(b), nil).
C7_WriteLiveness ==
  [][backend = "browser" =>
       /\ \A w \in Writers : WriteReturns(w) =>
            IF \/ readyState \in {webSocketStateClosing, webSocketStateClosed}
               \/ closeCalls > 0
            THEN /\ wres'[w] = Res(0, errConnectionClosed)
                 /\ outbound' = outbound
            ELSE /\ wres'[w] = Res(Len(wbuf[w]), NoErr)
                 /\ outbound' = Append(outbound, Frame(BinaryMessage, wbuf[w]))
       /\ (\A w \in Writers : ~WriteReturns(w)) => outbound' = outbound]_vars

\* C7 witness: after a Close returned while the socket is still closing, a
\* Write of a non-empty buffer returned (0, errConnectionClosed) and nothing
\* was sent.
C7_Witness ==
  /\ backend = "browser"
  /\ closeReturned /\ readyState = webSocketStateClosing
  /\ wpc["w1"] = "idle" /\ wbuf["w1"] # <<>>
  /\ wres["w1"] = Res(0, errConnectionClosed)
  /\ outbound = <<>>

\* C8: browser backend: once a Read has returned a terminal condition
\* (end-of-stream or an error, with the buffer drained), every later Read
\* returns that same condition.
C8_LatchedCondition ==
  [][backend = "browser" =>
       \A r \in Readers :
         IsTerminal(rres[r]) /\ rpc[r] # "idle" /\ rpc'[r] = "idle"
           => rres'[r] = rres[r]]_vars

\* The connection ended or is being shut down: the socket dispatched its
\* close event or an error event, or Close was called.
Ended == readyState = webSocketStateClosed \/ closeCalls > 0

\* C9: browser backend: a Read suspended in its select when the connection
\* has ended (close event, error event or a local Close) eventually returns;
\* and a Read reports end-of-stream or an error only with the inbound buffer
\* empty, so bytes still buffered are returned first.
C9_SuspendedReadWakes ==
  /\ [](\A r \in Readers :
          rpc[r] = "idle" /\ IsTerminal(rres[r]) => currData = <<>>)
  /\ \A r \in Readers : (rpc[r] = "wait" /\ Ended) ~> (rpc[r] = "idle")

\* C9 witness: a Read is suspended in its select, bytes have arrived since it
\* found the buffer empty, and the close signal has been given.
C9_Witness ==
  /\ backend = "browser"
  /\ \E r \in Readers : rpc[r] = "wait"
  /\ Ended /\ closeSignal /\ currData # <<>>

\* The sizes of the chunks the Reads have returned so far, in order.
ChunkSizes == [i \in 1..Len(readLog) |-> Len(readLog[i])]

\* s is a prefix of t.
IsPrefix(s, t) == Len(s) <= Len(t) /\ s = SubSeq(t, 1, Len(s))

\* The reads the scenario yields with an 8-byte buffer.
ScenarioReads == <<8, 2, 5>>

\* C10: native backend: when a Read reaches c.reader.Read(b) with bytes left
\* in the current frame, it returns in that step min(len(b), bytes left) of
\* them, with a nil error and without fetching another frame; when the current
\* frame has no byte left (a frame it exhausted, or a zero-length frame) it
\* returns nothing and goes on to the next frame.  Instance: frames of 10, 0
\* and 5 bytes and a graceful close, read with an 8-byte buffer, give reads
\* of 8, 2 and 5 bytes and then end-of-stream, 15 bytes in all.
C10_SingleFrameRead ==
  /\ [][backend = "native" =>
          \A r \in Readers : rpc[r] = "loop" /\ rpc'[r] # "loop" =>
            IF reader.data # <<>>
            THEN LET n == Min(rlen[r], Len(reader.data)) IN
                 /\ rpc'[r] = "idle"
                 /\ rres'[r] = Res(n, NoErr)
                 /\ readLog' = Append(readLog, Take(reader.data, n))
                 /\ inbound' = inbound
            ELSE /\ rpc'[r] = "prep"
                 /\ rres'[r] = rres[r]
                 /\ readLog' = readLog]_vars
  /\ [](\A r \in Readers : rlen[r] = 8 =>
          /\ IsPrefix(ChunkSizes, ScenarioReads)
          /\ rres[r] = Res(0, EOF) =>
               ChunkSizes = ScenarioReads /\ Len(Received) = 15)

\* C10 witness: with the 8-byte buffer the Reads have returned 8, 2 and 5
\* bytes, the bytes 1..15 in order, and then end-of-stream.
C10_Witness ==
  /\ backend = "native"
  /\ rlen["r1"] = 8 /\ rpc["r1"] = "idle" /\ rres["r1"] = Res(0, EOF)
  /\ ChunkSizes = ScenarioReads
  /\ Received = [i \in 1..15 |-> i]

\* Goroutine g is inside its call of c.mux.Lock(), waiting for the lock.
WaitsForLock(g) ==
  \/ g \in Writers /\ wpc[g] = "lock"
  \/ g \in Deadliners /\ dpc[g] = "lock"

\* C11: native backend: a Read blocked in the frame fetch never keeps a
\* Write, a SetWriteDeadline or a SetDeadline waiting: no goroutine waits for
\* c.mux while a Read that holds it is blocked in NextReader.
C11_ReadDoesNotStall ==
  backend = "native" =>
    \A r \in Readers :
      rpc[r] = "prep" /\ ~CanStep(r) /\ r \in muxR =>
        \A g \in Writers \cup Deadliners : ~WaitsForLock(g)

\* C12: native backend: neither step of Close's handshake (the send of the
\* close control frame, the teardown of the transport) executes while a
\* Write is inside WriteMessage.
C12_WriteCloseExclusive ==
  [][backend = "native" =>
       \A c \in Closers :
         cpc[c] \in {"ctl", "teardown"} /\ cpc'[c] # cpc[c] =>
           \A w \in Writers : wpc[w] # "writing"]_vars

\* C13: native backend: no deadline call of the transport,
\* SetReadDeadline or SetWriteDeadline, executes while a Write is inside
\* WriteMessage.
C13_NoDeadlineDuringWrite ==
  [][backend = "native" =>
       \A d \in Deadliners :
         dpc[d] \in {"read", "write"} /\ dpc'[d] # dpc[d] =>
           \A w \in Writers : wpc[w] # "writing"]_vars

\* C14: native backend: at most one Read at a time is inside the section
\* that reads, clears or replaces c.reader.
C14_OneReaderAtCursor ==
  backend = "native" =>
    Cardinality({r \in Readers : rpc[r] \in {"prep", "loop"}}) <= 1

\* C19: native backend: SetDeadline(t) sets the read deadline first and the
\* write deadline second.  If the read deadline call fails, SetDeadline
\* returns that error at once and the write deadline is untouched; otherwise
\* the read deadline is t from then on.  If the write deadline call fails,
\* SetDeadline returns that error and the read deadline stays t; it returns
\* nil only with both deadlines equal to t.
C19_SetDeadline ==
  /\ [](backend = "native" =>
          \A d \in Deadliners :
            dop[d] = "SetDeadline" /\ dpc[d] \in {"lock", "write"} =>
              readDeadline = dt[d])
  /\ [][backend = "native" =>
          \A d \in Deadliners : dop[d] = "SetDeadline" =>
            /\ dpc[d] = "read" /\ dpc'[d] # "read" =>
                 /\ writeDeadline' = writeDeadline
                 /\ \/ /\ readDeadline' = dt[d]
                       /\ dpc'[d] = "lock" /\ dres'[d] = dres[d]
                    \/ /\ dpc'[d] = "idle"
                       /\ dres'[d].err # NoErr
            /\ dpc[d] = "write" /\ dpc'[d] = "idle" =>
                 /\ readDeadline' = dt[d]
                 /\ \/ dres'[d] = Res(0, NoErr) /\ writeDeadline' = dt[d]
                    \/ dres'[d].err # NoErr]_vars

\* C19 witness: SetDeadline(2) on a new connection returned an error with the
\* read deadline at 2 and the write deadline still unset.
C19_Witness ==
  /\ backend = "native"
  /\ dop["d1"] = "SetDeadline" /\ dt["d1"] = 2 /\ dpc["d1"] = "idle"
  /\ dres["d1"] = Res(0, NetErr)
  /\ readDeadline = 2 /\ writeDeadline = 0

\* The socket raises an error event in this step and the error handler,
\* still attached, runs: the socket is closed from now on, and the handler
\* calls its close method.
ErrorEventHandled ==
  /\ backend = "browser"
  /\ readyState # webSocketStateClosed /\ readyState' = webSocketStateClosed
  /\ closeCalls' = closeCalls + 1

\* C15: browser backend: when the socket raises an error event, a reason for
\* it is stored in c.firstErr (from where Reads return it once the buffer is
\* drained).
C15_ErrorLatched ==
  [][ErrorEventHandled => firstErr' # NoErr]_vars

\* A fetch outcome that means the end of the stream: a close error with code
\* 1000 or 1005, or a frame of type close.
FetchEnds(o) ==
  \/ o.err = CloseError(1000)
  \/ o.err = CloseError(1005)
  \/ o.err = NoErr /\ o.t = 8

\* C16: native backend: the step in which Read's frame fetch returns.  If it
\* failed with a close error of code 1000 or 1005, or fetched a close control
\* frame, Read returns (0, io.EOF); on any other error, a close error with
\* another code included, Read returns (0, that error); in these cases
\* c.reader is nil afterwards.  Otherwise the fetched frame becomes c.reader
\* and Read goes on.
C16_FetchErrors ==
  [][backend = "native" =>
       \A r \in Readers : rpc[r] = "prep" /\ rpc'[r] # "prep" =>
         \E o \in NextReaderOutcomes :
           /\ inbound' = o.inb /\ connErr' = o.cerr
           /\ IF FetchEnds(o)
              THEN rpc'[r] = "idle" /\ rres'[r] = Res(0, EOF) /\ reader' = NilReader
              ELSE IF o.err # NoErr
              THEN rpc'[r] = "idle" /\ rres'[r] = Res(0, o.err) /\ reader' = NilReader
              ELSE rpc'[r] = "loop" /\ rres'[r] = rres[r] /\ reader' = o.r]_vars

\* C16 witness: the peer closed with code 1006 and a Read returned that
\* close error unchanged, with 0 bytes and c.reader nil.
C16_Witness ==
  /\ backend = "native" /\ peerClosed = 1006
  /\ \E r \in Readers : rpc[r] = "idle" /\ rres[r] = Res(0, CloseError(1006))
  /\ reader = NilReader

\* The bytes the message handler has put in the buffer so far: those Reads
\* have returned, followed by those still buffered.
Delivered == Received \o currData

\* C17: browser backend: the bytes returned by Reads followed by the bytes
\* still in the buffer are, in order, the bytes the message handler appended:
\* a step only ever extends that sequence (a message arrives), so no byte is
\* dropped, returned twice or reordered, whatever close or error event or
\* Close call intervenes; and a Read returns end-of-stream or an error only
\* in a step that finds the buffer empty.
C17_BufferedBytesKept ==
  [][backend = "browser" =>
       /\ IsPrefix(Delivered, Delivered')
       /\ Delivered' # Delivered => Received' = Received
       /\ \A r \in Readers :
            rpc[r] # "idle" /\ rpc'[r] = "idle" /\ IsTerminal(rres'[r]) =>
              currData = <<>> /\ currData' = <<>>]_vars

\* C17 witness: the connection was closed with bytes in the buffer; a Read
\* called after that returned some of them and the rest is still buffered.
C17_Witness ==
  /\ backend = "browser" /\ closeSignal
  /\ \E r \in Readers : rpc[r] = "idle" /\ rsub[r] /\ rres[r] = Res(1, NoErr)
  /\ Received # <<>> /\ currData # <<>>

\* C18: browser backend: no wake-up is lost between the message handler and
\* Read.  Whenever a Read is suspended in its select with bytes in the
\* buffer, a signal is there to wake it (the data signal is set or the close
\* signal is closed), and the Read eventually returns bytes; this includes
\* arrivals coalesced into one signal and notifies dropped on a full slot.
C18_NoLostWakeup ==
  /\ [](backend = "browser" =>
          \A r \in Readers :
            rpc[r] = "wait" /\ currData # <<>> => dataSignal > 0 \/ closeSignal)
  /\ \A r \in Readers :
       (rpc[r] = "wait" /\ currData # <<>>)
         ~> (rpc[r] = "idle" /\ rres[r].n >= 1 /\ rres[r].err = NoErr)

\* C18 witness: a Read is suspended on an open connection, two messages have
\* arrived since and both are in the buffer, with the one signal the slot
\* holds.
C18_Witness ==
  /\ backend = "browser" /\ ~closeSignal /\ readyState = webSocketStateOpen
  /\ \E r \in Readers : rpc[r] = "wait"
  /\ peerFrames = 2 /\ currData = <<1, 2>> /\ Received = <<>>
  /\ dataSignal = 1

\* C20: browser backend: waitForOpen returns nil only if the open event was
\* observed; when it returns because c.closeSignal fired, the connection not
\* having opened, it returns a non-nil error.
C20_WaitForOpenError ==
  backend = "browser" /\ opc = "done" /\ ores.err = NoErr => openSignal

====
